---- MODULE Spec2Model ----
(***************************************************************************)
(* World Monitor API service and Correlation Engine 2.0                    *)
(* (src/src/services/api-server.ts) as a state machine.                     *)
(*                                                                         *)
(* Three parts share the module, each with its own specification:          *)
(*   SpecAPI      the Express pipeline: rateLimitMiddleware, CORS, the     *)
(*                routes, apiKeyMiddleware;                                *)
(*   SpecWebhook  WebhookService (registerWebhook, removeWebhook, trigger);*)
(*   SpecEngine   the correlation passes, runCorrelationEngine and         *)
(*                correlationsToThreatSignals applied to a snapshot.       *)
(*                                                                         *)
(* Units.  Date.now() and the rate-limit window are in milliseconds.       *)
(* Event dates are whole hours (date.getTime() = hours * 3600000), so the  *)
(* divisions by 1000*60*60 of the source are exact.  Distances returned by *)
(* haversineDistance are in metres (the source's kilometres * 1000).       *)
(***************************************************************************)
EXTENDS Integers, Sequences, FiniteSets, TLC

VARIABLES
  config,          \* let config: APIConfig  (apiKey, corsOrigins, rateLimit)
  rateLimitStore,  \* const rateLimitStore: Map clientId -> {count, resetTime}
  now,             \* Date.now(), milliseconds
  request,         \* observer: the most recent request
  passed,          \* observer: per clientId, the requests rateLimitMiddleware handed to next()
  response,        \* the response to the most recent request
  webhooks,        \* WebhookService.webhooks, a Map in insertion order
  delivery,        \* observer: what the most recent trigger() call did
  events,          \* the snapshot handed to the correlation passes
  out              \* the value returned by the most recent pass

apiVars == <<config, rateLimitStore, now, request, passed, response>>
webhookVars == <<webhooks, delivery>>
engineVars == <<events, out>>
vars == <<config, rateLimitStore, now, request, passed, response, webhooks, delivery, events, out>>

\* ------------------------------------------------------------------ helpers

Min(a, b) == IF a <= b THEN a ELSE b
\* Mutant of Max: the first argument is kept.
MaxKeepsFirst(a, b) == a

Max(a, b) == IF a >= b THEN a ELSE b
Abs(a) == IF a < 0 THEN 0 - a ELSE a

\* JavaScript's undefined, for string-valued fields.
Undefined == "undefined"

Range(s) == {s[i] : i \in 1..Len(s)}

\* Array.prototype.includes
Includes(s, x) == \E i \in 1..Len(s) : s[i] = x

\* Array.prototype.slice(0, end): a negative end counts from the end of the array.
SliceFrom0(list, end) ==
  LET len == Len(list)
      k == IF end < 0 THEN Max(len + end, 0) ELSE Min(end, len)
  IN SubSeq(list, 1, k)

\* ------------------------------------------------------------------ bounds

\* Milliseconds the clock advances in one Tick.
TickMs == 30000
\* The clock stops advancing after MaxTicks ticks.
MaxTicks == 4
\* config.rateLimit is configured (configureAPI) to a value in 1..MaxRateLimit.
MaxRateLimit == 2
\* Requests of one client modelled beyond the limit inside one window.
MaxOver == 1
\* The longest list a handler returns has HardMaxLimit + MaxExtra items.
MaxExtra == 2
\* The longest snapshot of mixed events.
MaxEvents == 3
\* The longest snapshot of events with recurring dates.
MaxPatternEvents == 4
\* The length of the snapshots of events that differ in their keyword only.
MaxThemeEvents == 5
\* The largest snapshot of events on the 60th parallel.
MaxClusterEvents == 4
\* The length of the snapshots of events that recur under two signatures.
MaxRecurringEvents == 7

\* ------------------------------------------------------------------ API: configuration

windowMs == 60000
DefaultLimit == 50
HardMaxLimit == 100

GoodKey == "dev-key-change-in-production"
AllowedOrigin == "http://localhost:3000"

\* let config = {...}; configureAPI({rateLimit}) before the server starts.
Configs ==
  {[apiKey |-> GoodKey, corsOrigins |-> <<AllowedOrigin>>, rateLimit |-> r] :
     r \in 1..MaxRateLimit}

\* ------------------------------------------------------------------ API: parseInt

DigitChars == {"0", "1", "2", "3", "4", "5", "6", "7", "8", "9"}

DigitVal(ch) ==
  CASE ch = "0" -> 0 [] ch = "1" -> 1 [] ch = "2" -> 2 [] ch = "3" -> 3
    [] ch = "4" -> 4 [] ch = "5" -> 5 [] ch = "6" -> 6 [] ch = "7" -> 7
    [] ch = "8" -> 8 [] ch = "9" -> 9

RECURSIVE SkipWhite(_)
SkipWhite(s) == IF s # <<>> /\ Head(s) = " " THEN SkipWhite(Tail(s)) ELSE s

\* The value of the longest prefix of decimal digits of s, given the value so far.
RECURSIVE DigitsValue(_, _)
DigitsValue(s, acc) ==
  IF s # <<>> /\ Head(s) \in DigitChars
  THEN DigitsValue(Tail(s), acc * 10 + DigitVal(Head(s)))
  ELSE acc

\* A query parameter: absent, or a string given as its sequence of characters.
NoParam == [present |-> FALSE, str |-> <<>>]
Param(chars) == [present |-> TRUE, str |-> chars]

\* String(x) for a query parameter: String(undefined) is "undefined".
ToStr(p) ==
  IF p.present THEN p.str ELSE <<"u", "n", "d", "e", "f", "i", "n", "e", "d">>

\* parseInt(string) without radix, for strings with no "0x" prefix: leading white
\* space, an optional sign, then the longest run of decimal digits; NaN without one.
parseInt(p) ==
  LET t == SkipWhite(ToStr(p))
      signed == t # <<>> /\ Head(t) \in {"+", "-"}
      neg == t # <<>> /\ Head(t) = "-"
      u == IF signed THEN Tail(t) ELSE t
  IN IF u = <<>> \/ Head(u) \notin DigitChars
     THEN [nan |-> TRUE, val |-> 0]
     ELSE [nan |-> FALSE, val |-> IF neg THEN 0 - DigitsValue(u, 0) ELSE DigitsValue(u, 0)]

\* Math.min(parseInt(limit as string) || 50, 100): NaN and 0 are falsy.
MaxLimitOf(limit) ==
  LET n == parseInt(limit)
  IN Min(IF n.nan \/ n.val = 0 THEN DefaultLimit ELSE n.val, HardMaxLimit)

\* ------------------------------------------------------------------ API: stored items

\* String.prototype.toLowerCase on the strings of the model.
toLowerCase(s) ==
  CASE s = "EU" -> "eu"
    [] s = "Asia" -> "asia"
    [] s = "Military" -> "military"
    [] OTHER -> s

\* A truthy query string: present and not empty.
Truthy(s) == s # Undefined /\ s # ""

\* What handlers.getStories() resolves to: n stories, regions and categories cycling.
StoriesOf(n) ==
  [i \in 1..n |->
     [id |-> i,
      region |-> IF i % 3 = 0 THEN Undefined ELSE IF i % 3 = 1 THEN "EU" ELSE "asia",
      category |-> IF i % 2 = 0 THEN "Military" ELSE "economy",
      severity |-> IF i % 2 = 0 THEN "high" ELSE "low"]]

\* s.region?.toLowerCase() === region.toLowerCase()
SameLower(field, wanted) ==
  field # Undefined /\ toLowerCase(field) = toLowerCase(wanted)

\* ------------------------------------------------------------------ API: middleware

\* req.ip || 'unknown'
ClientIdOf(ip) == IF ip = Undefined \/ ip = "" THEN "unknown" ELSE ip

\* Mutant of OverLimit: one request more than the limit is let through.
OverLimitOffByOne(count, limit) == count > limit + 1

\* clientData.count > config.rateLimit
OverLimit(count, limit) == count > limit

\* rateLimitMiddleware: the store after the request and whether next() is called.
rateLimitMiddleware(store, cfg, ip, t) ==
  LET clientId == ClientIdOf(ip)
      fresh == clientId \notin DOMAIN store \/ t > store[clientId].resetTime
      clientData == IF fresh
                    THEN [count |-> 1, resetTime |-> t + windowMs]
                    ELSE [store[clientId] EXCEPT !.count = @ + 1]
  IN [store |-> [c \in DOMAIN store \cup {clientId} |->
                   IF c = clientId THEN clientData ELSE store[c]],
      data |-> clientData,
      next |-> ~OverLimit(clientData.count, cfg.rateLimit)]

\* The CORS middleware: whether the Access-Control-Allow-* headers are set.
CorsHeaders(cfg, origin) == origin # Undefined /\ Includes(cfg.corsOrigins, origin)

\* apiKeyMiddleware: req.headers['x-api-key'] || req.query.api_key, compared to config.apiKey.
apiKeyMiddleware(cfg, headerKey, queryKey) ==
  LET apiKey == IF Truthy(headerKey) THEN headerKey ELSE queryKey
  IN Truthy(apiKey) /\ apiKey = cfg.apiKey

\* ------------------------------------------------------------------ API: responses

Reply(status, error, handler, cors) ==
  [status |-> status, error |-> error, handler |-> handler, cors |-> cors,
   items |-> <<>>, count |-> 0, limit |-> 0]

ListReply(handler, cors, items, maxLimit) ==
  [status |-> 200, error |-> "", handler |-> handler, cors |-> cors,
   items |-> items, count |-> Len(items), limit |-> maxLimit]

\* GET /api/stories: filter by region, filter by category, limit results.
GetStories(q, handlerThrows, n, cors) ==
  IF handlerThrows THEN Reply(500, "Failed to fetch stories", "getStories", cors)
  ELSE
    LET all == StoriesOf(n)
        ByRegion(s) == SameLower(s.region, q.region)
        ByCategory(s) == SameLower(s.category, q.category)
        s1 == IF Truthy(q.region) THEN SelectSeq(all, ByRegion) ELSE all
        s2 == IF Truthy(q.category) THEN SelectSeq(s1, ByCategory) ELSE s1
        maxLimit == MaxLimitOf(q.limit)
    IN ListReply("getStories", cors, SliceFrom0(s2, maxLimit), maxLimit)

\* GET /api/signals: filter by severity, filter by region, limit results.
GetSignals(q, handlerThrows, n, cors) ==
  IF handlerThrows THEN Reply(500, "Failed to fetch signals", "getSignals", cors)
  ELSE
    LET all == StoriesOf(n)
        BySeverity(s) == s.severity = q.severity
        ByRegion(s) == SameLower(s.region, q.region)
        s1 == IF Truthy(q.severity) THEN SelectSeq(all, BySeverity) ELSE all
        s2 == IF Truthy(q.region) THEN SelectSeq(s1, ByRegion) ELSE s1
        maxLimit == MaxLimitOf(q.limit)
    IN ListReply("getSignals", cors, SliceFrom0(s2, maxLimit), maxLimit)

OpenRoutes == {"/api/health", "/api"}
ProtectedRoutes ==
  {"/api/stories", "/api/signals", "/api/reports/:period", "/api/countries", "/api/categories"}

\* The routes of createAPIServer in registration order, after rateLimitMiddleware.
Route(cfg, req) ==
  LET cors == CorsHeaders(cfg, req.origin)
  IN CASE req.path = "/api/health" ->
            IF req.handlerThrows THEN Reply(500, "Health check failed", "getHealth", cors)
            ELSE Reply(200, "", "getHealth", cors)
       [] req.path = "/api" -> Reply(200, "", "none", cors)
       [] OTHER ->
            IF ~apiKeyMiddleware(cfg, req.headerKey, req.queryKey)
            THEN Reply(401, "Invalid or missing API key", "none", cors)
            ELSE CASE req.path = "/api/stories" ->
                        GetStories(req.query, req.handlerThrows, req.n, cors)
                   [] req.path = "/api/signals" ->
                        GetSignals(req.query, req.handlerThrows, req.n, cors)
                   [] req.path = "/api/reports/:period" ->
                        IF req.handlerThrows
                        THEN Reply(500, "Failed to generate report", "getReport", cors)
                        ELSE Reply(200, "", "getReport", cors)
                   [] req.path \in {"/api/countries", "/api/categories"} ->
                        Reply(200, "", "none", cors)
                   [] OTHER -> Reply(404, "", "none", cors)

\* ------------------------------------------------------------------ WebhookService

\* new URL(url) does not throw.
ValidURL(url) == url \in {"https://a.example/hook", "https://b.example/hook"}

\* Map.prototype.has
HasWebhook(map, id) == \E i \in 1..Len(map) : map[i].id = id

\* Map.prototype.set: an existing key keeps its place, a new key goes last.
MapSet(map, id, cfg) ==
  LET entry == [id |-> id, url |-> cfg.url, events |-> cfg.events, secret |-> cfg.secret]
  IN IF HasWebhook(map, id)
     THEN [i \in 1..Len(map) |-> IF map[i].id = id THEN entry ELSE map[i]]
     ELSE Append(map, entry)

\* Map.prototype.delete
MapDelete(map, id) ==
  LET Other(w) == w.id # id
  IN SelectSeq(map, Other)

\* const payload = {..., signature: this.generateSignature(config.secret,
\* JSON.stringify(payload))}: the initializer reads payload before it is initialized.
\* A build that keeps const throws ReferenceError; a build that lowers const to var
\* reads undefined, JSON.stringify(undefined) is undefined, and Hmac.update(undefined)
\* throws TypeError.
BuildPayload(cfg, event, data, build) ==
  [threw |-> TRUE,
   error |-> IF build = "es5" THEN "TypeError" ELSE "ReferenceError",
   signature |-> <<>>]

\* sendWebhook: the fetch calls made and the console.error lines written.
sendWebhook(cfg, event, data, build, fetchRejects) ==
  LET payload == BuildPayload(cfg, event, data, build)
      post == [url |-> cfg.url, method |-> "POST", event |-> event, data |-> data,
               signature |-> payload.signature]
  IN IF payload.threw
     THEN [posts |-> <<>>, errors |-> <<[url |-> cfg.url, error |-> payload.error]>>]
     ELSE IF fetchRejects
          THEN [posts |-> <<post>>, errors |-> <<[url |-> cfg.url, error |-> "fetch"]>>]
          ELSE [posts |-> <<post>>, errors |-> <<>>]

\* trigger: sendWebhook for every webhook, in Map order, whose events include event.
RECURSIVE triggerFrom(_, _, _, _, _)
triggerFrom(map, event, data, build, fetchRejects) ==
  IF map = <<>> THEN [posts |-> <<>>, errors |-> <<>>]
  ELSE LET rest == triggerFrom(Tail(map), event, data, build, fetchRejects)
           sent == IF Includes(Head(map).events, event)
                   THEN sendWebhook(Head(map), event, data, build, fetchRejects)
                   ELSE [posts |-> <<>>, errors |-> <<>>]
       IN [posts |-> sent.posts \o rest.posts, errors |-> sent.errors \o rest.errors]

NoCall == [op |-> "none", ret |-> FALSE, event |-> Undefined, posts |-> <<>>, errors |-> <<>>]

WebhookIds == {"w1", "w2"}
WebhookConfigs ==
  [url : {"https://a.example/hook", "https://b.example/hook", "not a url"},
   events : {<<>>, <<"alert">>, <<"alert", "story">>},
   secret : {"s3cret"}]
EventNames == {"alert", "story"}

\* registerWebhook(id, config)
RegisterWebhook ==
  \E id \in WebhookIds, cfg \in WebhookConfigs :
    /\ webhooks' = IF ValidURL(cfg.url) THEN MapSet(webhooks, id, cfg) ELSE webhooks
    /\ delivery' = [NoCall EXCEPT !.op = "registerWebhook", !.ret = ValidURL(cfg.url)]
    /\ UNCHANGED <<apiVars, engineVars>>

\* removeWebhook(id)
RemoveWebhook ==
  \E id \in WebhookIds :
    /\ webhooks' = MapDelete(webhooks, id)
    /\ delivery' = [NoCall EXCEPT !.op = "removeWebhook", !.ret = HasWebhook(webhooks, id)]
    /\ UNCHANGED <<apiVars, engineVars>>

\* trigger(event, data)
Trigger ==
  \E event \in EventNames, build \in {"es5", "es2015"}, fetchRejects \in BOOLEAN :
    LET done == triggerFrom(webhooks, event, "data", build, fetchRejects)
    IN /\ delivery' = [op |-> "trigger", ret |-> TRUE, event |-> event,
                       posts |-> done.posts, errors |-> done.errors]
       /\ UNCHANGED <<webhooks, apiVars, engineVars>>

\* ------------------------------------------------------------------ API: actions

ClientIds == {"10.0.0.1", "unknown"}

EmptyPassed == [c \in ClientIds |-> <<>>]

\* The entries of the observer log that are at most one window old at time t.
Recent(log, t) ==
  LET Young(e) == e.time >= t - windowMs
  IN [c \in ClientIds |-> SelectSeq(log[c], Young)]

\* Time passes.
Tick ==
  /\ now < MaxTicks * TickMs
  /\ now' = now + TickMs
  /\ passed' = Recent(passed, now + TickMs)
  /\ UNCHANGED <<config, rateLimitStore, request, response, webhookVars, engineVars>>

\* One request through the pipeline of createAPIServer: rateLimitMiddleware, CORS,
\* the open routes, apiKeyMiddleware, the protected routes.
HandleRequest(req) ==
  LET rl == rateLimitMiddleware(rateLimitStore, config, req.ip, now)
      clientId == ClientIdOf(req.ip)
  IN /\ rl.data.count <= config.rateLimit + MaxOver
     /\ rateLimitStore' = rl.store
     /\ request' = req
     /\ IF rl.next
        THEN /\ passed' = [passed EXCEPT ![clientId] =
                             Append(@, [time |-> now, resetTime |-> rl.data.resetTime])]
             /\ response' = Route(config, req)
        ELSE /\ passed' = passed
             /\ response' = Reply(429, "Rate limit exceeded", "none", FALSE)
     /\ UNCHANGED <<config, now, webhookVars, engineVars>>

\* The limit query parameter: absent, non-numeric, zero, negative, small, above 100.
LimitParams ==
  {NoParam, Param(<<"a", "b", "c">>), Param(<<>>), Param(<<"0">>), Param(<<"-", "1">>),
   Param(<<"2">>), Param(<<" ", "7", "x">>), Param(<<"1", "0", "0">>),
   Param(<<"1", "0", "1">>)}

NoQuery ==
  [limit |-> NoParam, region |-> Undefined, category |-> Undefined, severity |-> Undefined]

\* The filters are given together or not at all.
Queries ==
  {[limit |-> l, region |-> f[1], category |-> f[2], severity |-> f[3]] :
     l \in LimitParams,
     f \in {<<Undefined, Undefined, Undefined>>, <<"eu", Undefined, Undefined>>,
            <<Undefined, "military", "high">>}}

ListLens == {0, 3, DefaultLimit + MaxExtra, HardMaxLimit + MaxExtra}

\* Requests that differ in client and route: the rate limiter's inputs.
RateRequests ==
  [ip : {"10.0.0.1", Undefined}, path : {"/api", "/api/stories"},
   origin : {Undefined}, headerKey : {GoodKey}, queryKey : {Undefined},
   query : {NoQuery}, handlerThrows : {FALSE}, n : {3}]

\* Requests of one client: authorised list queries, and every route under every
\* combination of credentials and origin.
APIRequests ==
  [ip : {"10.0.0.1"}, path : {"/api/stories", "/api/signals"},
   origin : {Undefined}, headerKey : {GoodKey}, queryKey : {Undefined},
   query : Queries, handlerThrows : {FALSE}, n : ListLens]
  \cup
  [ip : {"10.0.0.1"}, path : OpenRoutes \cup ProtectedRoutes \cup {"/other"},
   origin : {Undefined, AllowedOrigin, "http://evil.example"},
   headerKey : {Undefined, GoodKey, "wrong"}, queryKey : {Undefined, GoodKey},
   query : {NoQuery}, handlerThrows : BOOLEAN, n : {3}]

\* Before the first request.
NoRequest ==
  [ip |-> Undefined, path |-> "", origin |-> Undefined, headerKey |-> Undefined,
   queryKey |-> Undefined, query |-> NoQuery, handlerThrows |-> FALSE, n |-> 0]

Request == \E req \in RateRequests : HandleRequest(req)

QueryRequest == \E req \in APIRequests : HandleRequest(req)

IdleWebhooks == webhooks = <<>> /\ delivery = NoCall
IdleEngine == events = <<>> /\ out = [fn |-> "none", arg |-> <<>>, value |-> <<>>]
IdleAPI ==
  /\ config = [apiKey |-> GoodKey, corsOrigins |-> <<AllowedOrigin>>, rateLimit |-> 100]
  /\ rateLimitStore = <<>>
  /\ now = 0
  /\ request = NoRequest
  /\ passed = EmptyPassed
  /\ response = Reply(0, "", "none", FALSE)

InitAPI ==
  /\ config \in Configs
  /\ rateLimitStore = <<>>
  /\ now = 0
  /\ request = NoRequest
  /\ passed = EmptyPassed
  /\ response = Reply(0, "", "none", FALSE)
  /\ IdleWebhooks
  /\ IdleEngine

\* The rate limiter under requests of two clients at any times.
NextRate == Tick \/ Request
SpecRate == InitAPI /\ [][NextRate]_vars

\* The routes under the queries of one client inside one rate-limit window.
NextAPI == QueryRequest
SpecAPI == InitAPI /\ [][NextAPI]_vars

\* ------------------------------------------------------------------ engine: helpers

CORRELATION_WINDOW == 72
SPATIAL_THRESHOLD_KM == 500
CASCADE_MIN_HOURS == 6
CASCADE_MAX_HOURS == 48
CASCADE_HIGH_HOURS == 12
WEEK_HOURS == 168
CLUSTER_RADIUS_KM == 100
CLUSTER_START_RADIUS_KM == 50
MAX_SIGNALS == 5

\* Mutant of Clamp100: the score is not clamped.
Unclamped(x) == x

\* Math.min(100, x)
Clamp100(x) == Min(100, x)

\* Math.round of the rational num/den, den > 0: halves round up.
RoundDiv(num, den) == (2 * num + den) \div (2 * den)

\* An optional number (lat?: number) is <<>> when undefined and <<v>> otherwise.
\* Its truthiness, as in `e1.lat && e1.lon`: undefined and 0 are falsy.
TruthyNum(x) == x # <<>> /\ x[1] # 0

\* The index pairs of `for i ... for j = i + 1 ...` over n elements, in loop order.
RECURSIVE PairsFrom(_, _, _)
PairsFrom(i, j, n) ==
  IF i >= n THEN <<>>
  ELSE IF j > n THEN PairsFrom(i + 1, i + 2, n)
       ELSE <<<<i, j>>>> \o PairsFrom(i, j + 1, n)

\* Array.prototype.sort with a comparator on an integer key, largest key first. The
\* sort is stable: elements with equal keys keep their order.
RECURSIVE InsertDesc(_, _)
InsertDesc(sorted, x) ==
  IF sorted = <<>> THEN <<x>>
  ELSE IF Head(sorted).key >= x.key THEN <<Head(sorted)>> \o InsertDesc(Tail(sorted), x)
       ELSE <<x>> \o sorted

\* Mutant of SortKeyed: the elements stay in the order they were pushed.
Unsorted(ps) == ps

RECURSIVE SortKeyed(_)
SortKeyed(ps) ==
  IF ps = <<>> THEN <<>>
  ELSE InsertDesc(SortKeyed(SubSeq(ps, 1, Len(ps) - 1)), ps[Len(ps)])

Unkey(ps) == [i \in 1..Len(ps) |-> ps[i].val]

\* results.sort((a, b) => b.score - a.score)
SortByScore(rs) == Unkey(SortKeyed([i \in 1..Len(rs) |-> [key |-> rs[i].score, val |-> rs[i]]]))

\* [...events].sort((a, b) => a.date.getTime() - b.date.getTime())
SortByDate(es) == Unkey(SortKeyed([i \in 1..Len(es) |-> [key |-> 0 - es[i].date, val |-> es[i]]]))

\* e1.keywords.filter(k => e2.keywords.includes(k))
SharedKeywords(e1, e2) ==
  LET InOther(k) == Includes(e2.keywords, k)
  IN SelectSeq(e1.keywords, InOther)

Description(kind, titles, n, m, words) ==
  [kind |-> kind, titles |-> titles, n |-> n, m |-> m, words |-> words]

\* haversineDistance on the coordinates of the model (whole degrees), in metres:
\* the source's formula with R = 6371 evaluated in double precision.
haversineTable ==
  <<0, 0, 0, 0>> :> 0 @@ <<0, 0, 0, 1>> :> 111195 @@ <<0, 0, 0, 2>> :> 222390 @@
  <<0, 0, 0, 3>> :> 333585 @@ <<0, 0, 0, 7>> :> 778364 @@ <<0, 0, 60, 0>> :> 6671696 @@
  <<0, 0, 60, 1>> :> 6672256 @@ <<0, 0, 60, 2>> :> 6673936 @@ <<0, 0, 60, 3>> :> 6676735 @@
  <<0, 0, 60, 7>> :> 6699079 @@ <<0, 1, 0, 0>> :> 111195 @@ <<0, 1, 0, 1>> :> 0 @@
  <<0, 1, 0, 2>> :> 111195 @@ <<0, 1, 0, 3>> :> 222390 @@ <<0, 1, 0, 7>> :> 667170 @@
  <<0, 1, 60, 0>> :> 6672256 @@ <<0, 1, 60, 1>> :> 6671696 @@ <<0, 1, 60, 2>> :> 6672256 @@
  <<0, 1, 60, 3>> :> 6673936 @@ <<0, 1, 60, 7>> :> 6691827 @@ <<0, 2, 0, 0>> :> 222390 @@
  <<0, 2, 0, 1>> :> 111195 @@ <<0, 2, 0, 2>> :> 0 @@ <<0, 2, 0, 3>> :> 111195 @@
  <<0, 2, 0, 7>> :> 555975 @@ <<0, 2, 60, 0>> :> 6673936 @@ <<0, 2, 60, 1>> :> 6672256 @@
  <<0, 2, 60, 2>> :> 6671696 @@ <<0, 2, 60, 3>> :> 6672256 @@ <<0, 2, 60, 7>> :> 6685684 @@
  <<0, 3, 0, 0>> :> 333585 @@ <<0, 3, 0, 1>> :> 222390 @@ <<0, 3, 0, 2>> :> 111195 @@
  <<0, 3, 0, 3>> :> 0 @@ <<0, 3, 0, 7>> :> 444780 @@ <<0, 3, 60, 0>> :> 6676735 @@
  <<0, 3, 60, 1>> :> 6673936 @@ <<0, 3, 60, 2>> :> 6672256 @@ <<0, 3, 60, 3>> :> 6671696 @@
  <<0, 3, 60, 7>> :> 6680652 @@ <<0, 7, 0, 0>> :> 778364 @@ <<0, 7, 0, 1>> :> 667170 @@
  <<0, 7, 0, 2>> :> 555975 @@ <<0, 7, 0, 3>> :> 444780 @@ <<0, 7, 0, 7>> :> 0 @@
  <<0, 7, 60, 0>> :> 6699079 @@ <<0, 7, 60, 1>> :> 6691827 @@ <<0, 7, 60, 2>> :> 6685684 @@
  <<0, 7, 60, 3>> :> 6680652 @@ <<0, 7, 60, 7>> :> 6671696 @@ <<60, 0, 0, 0>> :> 6671696 @@
  <<60, 0, 0, 1>> :> 6672256 @@ <<60, 0, 0, 2>> :> 6673936 @@ <<60, 0, 0, 3>> :> 6676735 @@
  <<60, 0, 0, 7>> :> 6699079 @@ <<60, 0, 60, 0>> :> 0 @@ <<60, 0, 60, 1>> :> 55597 @@
  <<60, 0, 60, 2>> :> 111191 @@ <<60, 0, 60, 3>> :> 166778 @@ <<60, 0, 60, 7>> :> 389001 @@
  <<60, 1, 0, 0>> :> 6672256 @@ <<60, 1, 0, 1>> :> 6671696 @@ <<60, 1, 0, 2>> :> 6672256 @@
  <<60, 1, 0, 3>> :> 6673936 @@ <<60, 1, 0, 7>> :> 6691827 @@ <<60, 1, 60, 0>> :> 55597 @@
  <<60, 1, 60, 1>> :> 0 @@ <<60, 1, 60, 2>> :> 55597 @@ <<60, 1, 60, 3>> :> 111191 @@
  <<60, 1, 60, 7>> :> 333470 @@ <<60, 2, 0, 0>> :> 6673936 @@ <<60, 2, 0, 1>> :> 6672256 @@
  <<60, 2, 0, 2>> :> 6671696 @@ <<60, 2, 0, 3>> :> 6672256 @@ <<60, 2, 0, 7>> :> 6685684 @@
  <<60, 2, 60, 0>> :> 111191 @@ <<60, 2, 60, 1>> :> 55597 @@ <<60, 2, 60, 2>> :> 0 @@
  <<60, 2, 60, 3>> :> 55597 @@ <<60, 2, 60, 7>> :> 277921 @@ <<60, 3, 0, 0>> :> 6676735 @@
  <<60, 3, 0, 1>> :> 6673936 @@ <<60, 3, 0, 2>> :> 6672256 @@ <<60, 3, 0, 3>> :> 6671696 @@
  <<60, 3, 0, 7>> :> 6680652 @@ <<60, 3, 60, 0>> :> 166778 @@ <<60, 3, 60, 1>> :> 111191 @@
  <<60, 3, 60, 2>> :> 55597 @@ <<60, 3, 60, 3>> :> 0 @@ <<60, 3, 60, 7>> :> 222356 @@
  <<60, 7, 0, 0>> :> 6699079 @@ <<60, 7, 0, 1>> :> 6691827 @@ <<60, 7, 0, 2>> :> 6685684 @@
  <<60, 7, 0, 3>> :> 6680652 @@ <<60, 7, 0, 7>> :> 6671696 @@ <<60, 7, 60, 0>> :> 389001 @@
  <<60, 7, 60, 1>> :> 333470 @@ <<60, 7, 60, 2>> :> 277921 @@ <<60, 7, 60, 3>> :> 222356 @@
  <<60, 7, 60, 7>> :> 0

haversineDistance(lat1, lon1, lat2, lon2) == haversineTable[<<lat1, lon1, lat2, lon2>>]

\* ------------------------------------------------------------------ engine: pair passes

\* score > 70 ? 'high' : score > 50 ? 'medium' : 'low'
TemporalSignificance(score) ==
  IF score > 70 THEN "high" ELSE IF score > 50 THEN "medium" ELSE "low"

\* sharedKeywords.length >= 2
EnoughShared(shared) == Len(shared) >= 2

findTemporalCorrelations(evts) ==
  LET TimeDiff(p) == Abs(evts[p[1]].date - evts[p[2]].date)
      Shared(p) == SharedKeywords(evts[p[1]], evts[p[2]])
      Emits(p) == TimeDiff(p) <= CORRELATION_WINDOW /\ EnoughShared(Shared(p))
      Score(p) == Clamp100(RoundDiv((CORRELATION_WINDOW - TimeDiff(p)) * 100
                                      + Len(Shared(p)) * 10 * CORRELATION_WINDOW,
                                    CORRELATION_WINDOW))
      Result(p) ==
        [id |-> <<"temp", evts[p[1]].id, evts[p[2]].id>>,
         type |-> "temporal",
         score |-> Score(p),
         events |-> <<evts[p[1]].id, evts[p[2]].id>>,
         description |-> Description("occurred within hours, sharing",
                                     <<evts[p[1]].title, evts[p[2]].title>>,
                                     TimeDiff(p), 0, Shared(p)),
         significance |-> TemporalSignificance(Score(p))]
      hits == SelectSeq(PairsFrom(1, 2, Len(evts)), Emits)
  IN SortByScore([k \in 1..Len(hits) |-> Result(hits[k])])

\* e1.lat && e1.lon && e2.lat && e2.lon
HasCoordinates(e) == TruthyNum(e.lat) /\ TruthyNum(e.lon)

\* distance < 100 ? 'high' : distance < 250 ? 'medium' : 'low'  (distance in metres here)
SpatialSignificance(distance) ==
  IF distance < 100 * 1000 THEN "high" ELSE IF distance < 250 * 1000 THEN "medium" ELSE "low"

findSpatialCorrelations(evts) ==
  LET Distance(p) == haversineDistance(evts[p[1]].lat[1], evts[p[1]].lon[1],
                                       evts[p[2]].lat[1], evts[p[2]].lon[1])
      Emits(p) == /\ HasCoordinates(evts[p[1]]) /\ HasCoordinates(evts[p[2]])
                  /\ Distance(p) <= SPATIAL_THRESHOLD_KM * 1000
      Score(p) == Clamp100(RoundDiv((SPATIAL_THRESHOLD_KM * 1000 - Distance(p)) * 100,
                                    SPATIAL_THRESHOLD_KM * 1000))
      Result(p) ==
        [id |-> <<"spat", evts[p[1]].id, evts[p[2]].id>>,
         type |-> "spatial",
         score |-> Score(p),
         events |-> <<evts[p[1]].id, evts[p[2]].id>>,
         description |-> Description("occurred within km of each other",
                                     <<evts[p[1]].title, evts[p[2]].title>>,
                                     RoundDiv(Distance(p), 1000), 0, <<>>),
         significance |-> SpatialSignificance(Distance(p))]
      hits == SelectSeq(PairsFrom(1, 2, Len(evts)), Emits)
  IN SortByScore([k \in 1..Len(hits) |-> Result(hits[k])])

\* hoursDiff > 6 && hoursDiff < 48
InCascadeGap(hoursDiff) == hoursDiff > CASCADE_MIN_HOURS /\ hoursDiff < CASCADE_MAX_HOURS

\* hoursDiff < 12 ? 'high' : 'medium'
CascadeSignificance(hoursDiff) == IF hoursDiff < CASCADE_HIGH_HOURS THEN "high" ELSE "medium"

detectCascades(evts) ==
  LET sorted == SortByDate(evts)
      HoursDiff(p) == sorted[p[2]].date - sorted[p[1]].date
      SameRegion(p) == sorted[p[1]].region = sorted[p[2]].region
      Shared(p) == SharedKeywords(sorted[p[1]], sorted[p[2]])
      Emits(p) == InCascadeGap(HoursDiff(p)) /\ (SameRegion(p) \/ EnoughShared(Shared(p)))
      Bonus(p) == IF SameRegion(p) THEN 20 ELSE Len(Shared(p)) * 10
      Score(p) == Clamp100(RoundDiv((CASCADE_MAX_HOURS - HoursDiff(p)) * 100
                                      + Bonus(p) * CASCADE_MAX_HOURS,
                                    CASCADE_MAX_HOURS))
      Result(p) ==
        [id |-> <<"cascade", sorted[p[1]].id, sorted[p[2]].id>>,
         type |-> "cascade",
         score |-> Score(p),
         events |-> <<sorted[p[1]].id, sorted[p[2]].id>>,
         description |-> Description("Possible cascade",
                                     <<sorted[p[1]].title, sorted[p[2]].title>>,
                                     HoursDiff(p), 0,
                                     IF SameRegion(p) THEN <<"[same region]">> ELSE <<>>),
         significance |-> CascadeSignificance(HoursDiff(p))]
      hits == SelectSeq(PairsFrom(1, 2, Len(sorted)), Emits)
  IN SortByScore([k \in 1..Len(hits) |-> Result(hits[k])])

\* ------------------------------------------------------------------ engine: thematic

\* The (keyword, event id) pushes of the grouping loop, in order: one per entry of
\* every event's keywords array.
RECURSIVE KeywordPushes(_)
KeywordPushes(evts) ==
  IF evts = <<>> THEN <<>>
  ELSE [i \in 1..Len(Head(evts).keywords) |->
          [keyword |-> Head(evts).keywords[i], id |-> Head(evts).id]]
       \o KeywordPushes(Tail(evts))

\* The distinct elements of s in order of first appearance: the key order of an
\* object whose keys are not integer-like and not inherited from Object.prototype.
RECURSIVE FirstAppearances(_)
FirstAppearances(s) ==
  IF s = <<>> THEN <<>>
  ELSE LET front == FirstAppearances(SubSeq(s, 1, Len(s) - 1))
       IN IF Includes(front, s[Len(s)]) THEN front ELSE Append(front, s[Len(s)])

\* keywordToEvents[keyword]
EventIdsOf(pushes, keyword) ==
  LET Of(x) == x.keyword = keyword
      mine == SelectSeq(pushes, Of)
  IN [i \in 1..Len(mine) |-> mine[i].id]

\* eventIds.length >= 3
ConnectsEnough(eventIds) == Len(eventIds) >= 3

\* eventIds.length >= 5 ? 'high' : eventIds.length >= 3 ? 'medium' : 'low'
ThematicSignificance(n) == IF n >= 5 THEN "high" ELSE IF n >= 3 THEN "medium" ELSE "low"

MaxOfSet(S) == CHOOSE x \in S : \A y \in S : y <= x
MinOfSet(S) == CHOOSE x \in S : \A y \in S : x <= y

findThematicCorrelations(evts) ==
  LET pushes == KeywordPushes(evts)
      keys == FirstAppearances([i \in 1..Len(pushes) |-> pushes[i].keyword])
      Ids(k) == EventIdsOf(pushes, k)
      Emits(k) == ConnectsEnough(Ids(k))
      Dates(k) == {evts[i].date : i \in {j \in 1..Len(evts) : Includes(Ids(k), evts[j].id)}}
      \* daysRange = dateRange / (1000 * 60 * 60 * 24), dates in hours here
      HoursRange(k) == MaxOfSet(Dates(k)) - MinOfSet(Dates(k))
      Result(k) ==
        [id |-> <<"theme", k>>,
         type |-> "thematic",
         score |-> Clamp100(Len(Ids(k)) * 15),
         events |-> Ids(k),
         description |-> Description("events share theme over days", <<>>,
                                     Len(Ids(k)), RoundDiv(HoursRange(k), 24), <<k>>),
         significance |-> ThematicSignificance(Len(Ids(k)))]
      hits == SelectSeq(keys, Emits)
  IN SortByScore([i \in 1..Len(hits) |-> Result(hits[i])])

\* ------------------------------------------------------------------ engine: patterns

\* `${event.region}:${event.keywords.slice(0, 2).join(',')}`, for regions and
\* keywords that contain neither ':' nor ','.
GroupKey(e) == <<e.region, SubSeq(e.keywords, 1, Min(2, Len(e.keywords)))>>

\* Mutant of Consistent: the tolerance is 10% of the mean.
ConsistentTenPercent(dates) ==
  LET n == Len(dates)
      total == dates[n] - dates[1]
  IN \A i \in 2..n :
       ~(total # 0 /\ 10 * Abs((dates[i] - dates[i - 1]) * (n - 1) - total) > total)

\* Every interval is within 20% of the mean total/(n-1). With all dates equal the
\* mean is 0, 0/0 is NaN and `NaN > 0.2` is false: the group counts as consistent.
Consistent(dates) ==
  LET n == Len(dates)
      total == dates[n] - dates[1]
  IN \A i \in 2..n :
       ~(total # 0 /\ 5 * Abs((dates[i] - dates[i - 1]) * (n - 1) - total) > total)

\* dates.slice(-5)
LastFive(dates) == SubSeq(dates, Max(1, Len(dates) - 4), Len(dates))

\* patterns.sort((a, b) => b.confidence - a.confidence)
SortByConfidence(ps) ==
  Unkey(SortKeyed([i \in 1..Len(ps) |-> [key |-> ps[i].confidence, val |-> ps[i]]]))

findTemporalPatterns(evts) ==
  LET sorted == SortByDate(evts)
      keys == FirstAppearances([i \in 1..Len(sorted) |-> GroupKey(sorted[i])])
      Dates(k) ==
        LET Mine(e) == GroupKey(e) = k
            mine == SelectSeq(sorted, Mine)
        IN [i \in 1..Len(mine) |-> mine[i].date]
      Total(k) == Dates(k)[Len(Dates(k))] - Dates(k)[1]
      Emits(k) == /\ Len(Dates(k)) >= 3
                  /\ Consistent(Dates(k))
                  /\ Total(k) < WEEK_HOURS * (Len(Dates(k)) - 1)
      Pattern(k) ==
        [pattern |-> <<"recurring every hours", RoundDiv(Total(k), Len(Dates(k)) - 1)>>,
         \* avgIntervalHours, the rational num/den
         frequency |-> [num |-> Total(k), den |-> Len(Dates(k)) - 1],
         confidence |-> Clamp100(Len(Dates(k)) * 20),
         recentHits |-> LastFive(Dates(k))]
      hits == SelectSeq(keys, Emits)
  IN SortByConfidence([i \in 1..Len(hits) |-> Pattern(hits[i])])

\* ------------------------------------------------------------------ engine: clusters

\* The inner loop of findGeographicClusters for seed event `seed`.
RECURSIVE ScanNearby(_, _, _, _)
ScanNearby(seed, others, cluster, used) ==
  IF others = <<>> THEN [cluster |-> cluster, used |-> used]
  ELSE
    LET other == Head(others)
    IN IF seed.id = other.id \/ ~HasCoordinates(other)
       THEN ScanNearby(seed, Tail(others), cluster, used)
       ELSE
         LET distance == haversineDistance(seed.lat[1], seed.lon[1], other.lat[1], other.lon[1])
         IN IF distance <= CLUSTER_RADIUS_KM * 1000
            THEN ScanNearby(seed, Tail(others),
                   [cluster EXCEPT
                      !.eventCount = @ + 1,
                      !.radiusKm = Max(@, distance),
                      !.categories = IF Includes(@, other.category) THEN @
                                     ELSE Append(@, other.category),
                      !.dateRange = [start |-> Min(@.start, other.date),
                                     end |-> Max(@.end, other.date)],
                      !.members = Append(@, other.id)],
                   used \cup {other.id})
            ELSE ScanNearby(seed, Tail(others), cluster, used)

\* Mutant of ClustersFrom: the used set is not consulted when a seed is chosen.
RECURSIVE ClustersFromIgnoringUsed(_, _, _, _)
ClustersFromIgnoringUsed(rest, evts, clusters, used) ==
  IF rest = <<>> THEN clusters
  ELSE
    LET event == Head(rest)
    IN IF ~HasCoordinates(event)
       THEN ClustersFromIgnoringUsed(Tail(rest), evts, clusters, used)
       ELSE
         LET start == [centerLat |-> event.lat[1], centerLon |-> event.lon[1],
                       radiusKm |-> CLUSTER_START_RADIUS_KM * 1000,
                       eventCount |-> 1,
                       categories |-> <<event.category>>,
                       dateRange |-> [start |-> event.date, end |-> event.date],
                       seed |-> event.id, members |-> <<>>]
             scan == ScanNearby(event, evts, start, used)
         IN ClustersFromIgnoringUsed(Tail(rest), evts,
                                     IF scan.cluster.eventCount >= 2
                                     THEN Append(clusters, scan.cluster) ELSE clusters,
                                     scan.used)

\* The outer loop: the events still to visit, the clusters pushed, the used ids.
RECURSIVE ClustersFrom(_, _, _, _)
ClustersFrom(rest, evts, clusters, used) ==
  IF rest = <<>> THEN clusters
  ELSE
    LET event == Head(rest)
    IN IF ~HasCoordinates(event) \/ event.id \in used
       THEN ClustersFrom(Tail(rest), evts, clusters, used)
       ELSE
         LET start == [centerLat |-> event.lat[1], centerLon |-> event.lon[1],
                       radiusKm |-> CLUSTER_START_RADIUS_KM * 1000,
                       eventCount |-> 1,
                       categories |-> <<event.category>>,
                       dateRange |-> [start |-> event.date, end |-> event.date],
                       seed |-> event.id, members |-> <<>>]
             scan == ScanNearby(event, evts, start, used)
         IN ClustersFrom(Tail(rest), evts,
                         IF scan.cluster.eventCount >= 2
                         THEN Append(clusters, scan.cluster) ELSE clusters,
                         scan.used)

\* clusters.sort((a, b) => b.eventCount - a.eventCount)
SortByEventCount(cs) ==
  Unkey(SortKeyed([i \in 1..Len(cs) |-> [key |-> cs[i].eventCount, val |-> cs[i]]]))

\* radiusKm is in metres here; `seed` and `members` are observer fields naming the seed
\* event and the events the inner loop counted, in the order it counted them.
findGeographicClusters(evts) == SortByEventCount(ClustersFrom(evts, evts, <<>>, {}))

\* ------------------------------------------------------------------ engine: orchestrator

runCorrelationEngine(evts) ==
  [temporal |-> findTemporalCorrelations(evts),
   spatial |-> findSpatialCorrelations(evts),
   thematic |-> findThematicCorrelations(evts),
   cascades |-> detectCascades(evts),
   patterns |-> findTemporalPatterns(evts),
   clusters |-> findGeographicClusters(evts)]

\* r => r.significance === 'high'
HighOnly(rs) ==
  LET High(r) == r.significance = "high"
  IN SelectSeq(rs, High)

\* Mutant of ProjectedResults: the concatenation is re-sorted by score.
ProjectedResultsByScore(results) ==
  SortByScore(HighOnly(results.temporal) \o HighOnly(results.spatial)
              \o HighOnly(results.cascades))

\* The results the projector reads, in order.
ProjectedResults(results) ==
  HighOnly(results.temporal) \o HighOnly(results.spatial) \o HighOnly(results.cascades)

\* `correlation_${corr.type}`
SignalType(type) ==
  CASE type = "temporal" -> "correlation_temporal"
    [] type = "spatial" -> "correlation_spatial"
    [] type = "thematic" -> "correlation_thematic"
    [] type = "cascade" -> "correlation_cascade"

\* `${corr.type.toUpperCase()} Correlation Detected`
SignalTitle(type) ==
  CASE type = "temporal" -> "TEMPORAL Correlation Detected"
    [] type = "spatial" -> "SPATIAL Correlation Detected"
    [] type = "thematic" -> "THEMATIC Correlation Detected"
    [] type = "cascade" -> "CASCADE Correlation Detected"

correlationsToThreatSignals(results) ==
  LET all == ProjectedResults(results)
      top == SliceFrom0(all, MAX_SIGNALS)
  IN [i \in 1..Len(top) |->
        [type |-> SignalType(top[i].type),
         title |-> SignalTitle(top[i].type),
         description |-> top[i].description,
         severity |-> IF top[i].significance = "high" THEN "medium" ELSE "low",
         score |-> top[i].score,
         events |-> top[i].events]]

\* ------------------------------------------------------------------ engine: snapshots

IdOf(i) == <<"e1", "e2", "e3", "e4", "e5", "e6", "e7", "e8", "e9">>[i]
TitleOf(i) == <<"T1", "T2", "T3", "T4", "T5", "T6", "T7", "T8", "T9">>[i]

\* The events of a snapshot: unique ids, in input order, with the given attributes.
Snapshot(attrs) ==
  [i \in 1..Len(attrs) |->
     [id |-> IdOf(i), title |-> TitleOf(i), date |-> attrs[i].date,
      lat |-> attrs[i].lat, lon |-> attrs[i].lon, region |-> attrs[i].region,
      keywords |-> attrs[i].keywords, source |-> "feed", category |-> attrs[i].category]]

\* The sequences over A of a length in lo..hi.
SeqsOf(A, lo, hi) == UNION {[1..n -> A] : n \in lo..hi}

\* Events without coordinates that differ in date, region and keywords.
TimeAttrs ==
  [date : {0, 6, 7, 12, 48, 72, 73}, lat : {<<>>}, lon : {<<>>}, region : {"X", "Y"},
   keywords : {<<"a">>, <<"a", "a">>, <<"a", "b">>, <<"b", "a", "c">>},
   category : {"military"}]

\* Events that differ in their coordinates: absent, zero, or on the 60th parallel.
SpaceAttrs ==
  [date : {0}, lat : {<<>>, <<0>>, <<60>>},
   lon : {<<>>, <<0>>, <<1>>, <<2>>, <<3>>, <<7>>},
   region : {"X"}, keywords : {<<"a">>}, category : {"military"}]

\* Events that differ in everything.
MixedAttrs ==
  {[date |-> 0, lat |-> <<60>>, lon |-> <<1>>, region |-> "X",
    keywords |-> <<"a", "b">>, category |-> "military"],
   [date |-> 7, lat |-> <<60>>, lon |-> <<2>>, region |-> "X",
    keywords |-> <<"a", "b">>, category |-> "economy"],
   [date |-> 7, lat |-> <<60>>, lon |-> <<3>>, region |-> "Y",
    keywords |-> <<"b", "a">>, category |-> "military"],
   [date |-> 14, lat |-> <<60>>, lon |-> <<3>>, region |-> "Y",
    keywords |-> <<"a", "a">>, category |-> "economy"],
   [date |-> 0, lat |-> <<0>>, lon |-> <<1>>, region |-> "X",
    keywords |-> <<"a">>, category |-> "politics"],
   [date |-> 30, lat |-> <<60>>, lon |-> <<2>>, region |-> "Y",
    keywords |-> <<"c", "a", "b">>, category |-> "military"]}

\* Events of one region that recur, one of them under another signature.
PatternAttrs ==
  [date : {0, 24, 48, 78}, lat : {<<>>}, lon : {<<>>}, region : {"X"},
   keywords : {<<"a", "b">>}, category : {"military"}]
  \cup
  {[date |-> 24, lat |-> <<>>, lon |-> <<>>, region |-> "X",
    keywords |-> <<"b", "a">>, category |-> "military"]}

\* Events of one signature that recur about weekly.
WeeklyAttrs ==
  [date : {0, 168, 200, 336, 400}, lat : {<<>>}, lon : {<<>>}, region : {"X"},
   keywords : {<<"a", "b">>}, category : {"military"}]

\* Events that differ in their keyword only.
ThemeAttrs ==
  [date : {0}, lat : {<<>>}, lon : {<<>>}, region : {"X"},
   keywords : {<<"a">>, <<"b">>}, category : {"military"}]

\* Events on the 60th parallel, where one degree of longitude is 55.6 km; longitude 0
\* is a coordinate the truthiness tests take for a missing one.
ClusterAttrs ==
  {[date |-> 10 * l, lat |-> <<60>>, lon |-> <<l>>, region |-> "X",
    keywords |-> <<"a">>, category |-> IF l < 3 THEN "military" ELSE "economy"] :
     l \in {0, 1, 2, 3, 7}}

\* The i-th event of a snapshot of recurring events: three daily dates, then dates a
\* day apart that begin 12 hours after the third; on the 60th parallel.
RecurringDate(i) == <<0, 24, 48, 60, 84, 108, 132, 156, 180>>[i]
RecurringLon(i) == <<3, 2, 1, 1, 7, 7, 7, 7, 7>>[i]

\* Snapshots of recurring events, each under one of two signatures.
RecurringSnapshots ==
  {[i \in 1..MaxRecurringEvents |->
      [date |-> RecurringDate(i), lat |-> <<60>>, lon |-> <<RecurringLon(i)>>,
       region |-> "X", keywords |-> sig[i],
       category |-> IF i < 3 THEN "military" ELSE "economy"]] :
     sig \in [1..MaxRecurringEvents -> {<<"a", "b", "d">>, <<"b", "a", "c">>}]}

Snapshots ==
  {Snapshot(a) :
     a \in SeqsOf(TimeAttrs, 2, 2) \cup SeqsOf(SpaceAttrs, 2, 2)
           \cup SeqsOf(MixedAttrs, 0, MaxEvents)
           \cup SeqsOf(PatternAttrs, 3, MaxPatternEvents)
           \cup SeqsOf(WeeklyAttrs, 3, 3)
           \cup SeqsOf(ThemeAttrs, MaxThemeEvents, MaxThemeEvents)
           \cup SeqsOf(ClusterAttrs, 4, MaxClusterEvents)
           \cup RecurringSnapshots}

\* ------------------------------------------------------------------ engine: actions

NoOutput == [fn |-> "none", arg |-> <<>>, value |-> <<>>]

Returned(fn, value) == [fn |-> fn, arg |-> <<>>, value |-> value]

FindTemporalCorrelations ==
  /\ out' = Returned("findTemporalCorrelations", findTemporalCorrelations(events))
  /\ UNCHANGED <<events, apiVars, webhookVars>>

FindSpatialCorrelations ==
  /\ out' = Returned("findSpatialCorrelations", findSpatialCorrelations(events))
  /\ UNCHANGED <<events, apiVars, webhookVars>>

FindThematicCorrelations ==
  /\ out' = Returned("findThematicCorrelations", findThematicCorrelations(events))
  /\ UNCHANGED <<events, apiVars, webhookVars>>

DetectCascades ==
  /\ out' = Returned("detectCascades", detectCascades(events))
  /\ UNCHANGED <<events, apiVars, webhookVars>>

FindTemporalPatterns ==
  /\ out' = Returned("findTemporalPatterns", findTemporalPatterns(events))
  /\ UNCHANGED <<events, apiVars, webhookVars>>

FindGeographicClusters ==
  /\ out' = Returned("findGeographicClusters", findGeographicClusters(events))
  /\ UNCHANGED <<events, apiVars, webhookVars>>

RunCorrelationEngine ==
  /\ out' = Returned("runCorrelationEngine", runCorrelationEngine(events))
  /\ UNCHANGED <<events, apiVars, webhookVars>>

\* correlationsToThreatSignals applied to the bundle runCorrelationEngine returned.
CorrelationsToThreatSignals ==
  /\ out.fn = "runCorrelationEngine"
  /\ out' = [fn |-> "correlationsToThreatSignals", arg |-> out.value,
             value |-> correlationsToThreatSignals(out.value)]
  /\ UNCHANGED <<events, apiVars, webhookVars>>

InitEngine ==
  /\ IdleAPI
  /\ IdleWebhooks
  /\ events \in Snapshots
  /\ out = NoOutput

NextEngine ==
  \/ FindTemporalCorrelations
  \/ FindSpatialCorrelations
  \/ FindThematicCorrelations
  \/ DetectCascades
  \/ FindTemporalPatterns
  \/ FindGeographicClusters
  \/ RunCorrelationEngine
  \/ CorrelationsToThreatSignals

SpecEngine == InitEngine /\ [][NextEngine]_vars

\* ------------------------------------------------------------------ C2

\* The requests of client c let through in the 60 seconds up to now.
PassedInLastWindow(c) ==
  LET In(e) == e.time > now - windowMs
  IN Len(SelectSeq(passed[c], In))

\* The requests of client c let through in the counting window that ends at r.
PassedInWindow(c, r) ==
  LET In(e) == e.resetTime = r
  IN Len(SelectSeq(passed[c], In))

\* C2 as stated: per client address, the requests rateLimitMiddleware lets through in
\* any 60-second interval never exceed config.rateLimit.
C2_SlidingWindow ==
  \A c \in ClientIds : PassedInLastWindow(c) <= config.rateLimit

\* C2 amended: per client address, the requests let through in one counting window
\* (opened by the first request after the previous window's resetTime, 60 seconds long)
\* never exceed config.rateLimit, so at most twice config.rateLimit pass in any
\* 60-second interval; a request is answered 429, with no handler run, exactly when
\* it is beyond its window's limit.
C2_FixedWindow ==
  /\ \A c \in ClientIds :
       /\ \A i \in 1..Len(passed[c]) :
            PassedInWindow(c, passed[c][i].resetTime) <= config.rateLimit
       /\ PassedInLastWindow(c) <= 2 * config.rateLimit
  /\ request # NoRequest =>
       /\ response.status = 429 <=>
            rateLimitStore[ClientIdOf(request.ip)].count > config.rateLimit
       /\ response.status = 429 => response.handler = "none" /\ response.items = <<>>

\* A client has used up its window and its next request was answered 429.
C2_Witness ==
  /\ request # NoRequest
  /\ response.status = 429
  /\ config.rateLimit >= 2
  /\ PassedInWindow(ClientIdOf(request.ip),
                    rateLimitStore[ClientIdOf(request.ip)].resetTime) = config.rateLimit

\* ------------------------------------------------------------------ C3

IsListReply == response.status = 200 /\ response.handler \in {"getStories", "getSignals"}

\* C3: for every value of the limit parameter and every list of the handler, GET
\* /api/stories and GET /api/signals return at most 100 items, and at most 50 when
\* limit is absent.
C3_AtMostHardMax ==
  IsListReply =>
    /\ Len(response.items) <= HardMaxLimit
    /\ ~request.query.limit.present => Len(response.items) <= DefaultLimit

\* ------------------------------------------------------------------ C4

InitWebhook == IdleAPI /\ IdleWebhooks /\ IdleEngine
NextWebhook == RegisterWebhook \/ RemoveWebhook \/ Trigger
SpecWebhook == InitWebhook /\ [][NextWebhook]_vars

\* The registered webhooks subscribed to event, in Map order.
Subscribers(event) ==
  LET Subscribed(w) == Includes(w.events, event)
  IN SelectSeq(webhooks, Subscribed)

\* C4: after any registerWebhook/removeWebhook calls, trigger(event, data) makes a
\* signed HTTP POST attempt to every registered webhook whose events contain event
\* and to no other; a failed delivery is logged and does not stop the other attempts.
C4_DeliversToSubscribers ==
  delivery.op = "trigger" =>
    /\ Len(delivery.posts) = Len(Subscribers(delivery.event))
    /\ \A i \in 1..Len(delivery.posts) :
         /\ delivery.posts[i].url = Subscribers(delivery.event)[i].url
         /\ delivery.posts[i].method = "POST"
         /\ delivery.posts[i].signature # <<>>

\* ------------------------------------------------------------------ C1

\* The index pairs i < j of the snapshot.
EventPairs == {p \in (1..Len(events)) \X (1..Len(events)) : p[1] < p[2]}

\* An event carries a latitude and a longitude; a coordinate of 0 is a coordinate.
CarriesCoordinates(e) == e.lat # <<>> /\ e.lon # <<>>

DistanceOf(p) ==
  haversineDistance(events[p[1]].lat[1], events[p[1]].lon[1],
                    events[p[2]].lat[1], events[p[2]].lon[1])

\* The results of a pair pass for the pair p of the snapshot.
ResultsFor(rs, p) ==
  {k \in 1..Len(rs) : rs[k].events = <<events[p[1]].id, events[p[2]].id>>}

\* C1: every pair of events that both carry coordinates (0 counts as present) at a
\* distance <= 500 km gets a spatial result; a pair at distance 0 gets score 100.
C1_SpatialResultForEveryClosePair ==
  out.fn = "findSpatialCorrelations" =>
    \A p \in EventPairs :
      (/\ CarriesCoordinates(events[p[1]]) /\ CarriesCoordinates(events[p[2]])
       /\ DistanceOf(p) <= SPATIAL_THRESHOLD_KM * 1000)
      => /\ ResultsFor(out.value, p) # {}
         /\ DistanceOf(p) = 0 => \A k \in ResultsFor(out.value, p) : out.value[k].score = 100

\* ------------------------------------------------------------------ C5

\* The dates of the snapshot in ascending order.
SortedDates == LET sorted == SortByDate(events) IN [i \in 1..Len(sorted) |-> sorted[i].date]

\* All events of the snapshot are of region "X" with first keywords "a", "b".
OneSignature ==
  \A i \in 1..Len(events) :
    /\ events[i].region = "X"
    /\ Len(events[i].keywords) >= 2
    /\ events[i].keywords[1] = "a" /\ events[i].keywords[2] = "b"

ThreeDaily == OneSignature /\ SortedDates = <<0, 24, 48>>
ThreeDailyThenThirty == OneSignature /\ SortedDates = <<0, 24, 48, 78>>

\* Exactly one pattern, of mean interval hours and the given confidence.
OnePattern(hours, confidence) ==
  /\ Len(out.value) = 1
  /\ out.value[1].frequency.num = hours * out.value[1].frequency.den
  /\ out.value[1].confidence = confidence

\* C5 as stated: three events of one signature 24 hours apart give exactly one pattern
\* with frequency 24 and confidence 60; a fourth event 30 hours after the third breaks
\* consistency, so that no pattern is emitted.
C5_FourthEventSuppresses ==
  out.fn = "findTemporalPatterns" =>
    /\ ThreeDaily => OnePattern(24, 60)
    /\ ThreeDailyThenThirty => out.value = <<>>

\* C5 amended: three events of one signature 24 hours apart give exactly one pattern
\* with frequency 24 and confidence 60; with a fourth event 30 hours after the third
\* the intervals 24, 24, 30 are all within 20% of their mean 26, so exactly one
\* pattern is emitted, with frequency 26 and confidence 80.
C5_FourthEventKeepsPattern ==
  out.fn = "findTemporalPatterns" =>
    /\ ThreeDaily => OnePattern(24, 60)
    /\ ThreeDailyThenThirty => OnePattern(26, 80)

C5_Witness ==
  out.fn = "findTemporalPatterns" /\ ThreeDailyThenThirty /\ OnePattern(26, 80)

\* ------------------------------------------------------------------ C6

\* The keywords two events have in common, as a set.
CommonKeywords(p) == Range(events[p[1]].keywords) \cap Range(events[p[2]].keywords)

HoursApart(p) == Abs(events[p[1]].date - events[p[2]].date)

\* C6: a temporal result exists for a pair iff the events are at most 72 hours apart
\* and their keyword sets have at least 2 keywords in common; its score is in [0,100]
\* and its significance is high above 70, medium above 50, low otherwise.
C6_TemporalIffWindowAndTwoShared ==
  out.fn = "findTemporalCorrelations" =>
    /\ \A p \in EventPairs :
         ResultsFor(out.value, p) # {} <=>
           (HoursApart(p) <= 72 /\ Cardinality(CommonKeywords(p)) >= 2)
    /\ \A k \in 1..Len(out.value) :
         /\ out.value[k].score \in 0..100
         /\ out.value[k].significance =
              IF out.value[k].score > 70 THEN "high"
              ELSE IF out.value[k].score > 50 THEN "medium" ELSE "low"

\* ------------------------------------------------------------------ C7

AllKeywords == UNION {Range(events[i].keywords) : i \in 1..Len(events)}

\* The events that reference keyword k.
Referencing(k) == {i \in 1..Len(events) : k \in Range(events[i].keywords)}

ThemeResults(k) == {j \in 1..Len(out.value) : out.value[j].id = <<"theme", k>>}

\* C7: exactly one thematic result for every keyword referenced by at least 3 distinct
\* events and none for any other; its event list names each referencing event once,
\* its score is min(100, 15 x count) and its significance high from 5 events on,
\* medium otherwise.
C7_ThematicCountsDistinctEvents ==
  out.fn = "findThematicCorrelations" =>
    /\ Len(out.value) = Cardinality({k \in AllKeywords : Cardinality(Referencing(k)) >= 3})
    /\ \A k \in AllKeywords :
         IF Cardinality(Referencing(k)) >= 3
         THEN /\ Cardinality(ThemeResults(k)) = 1
              /\ \A j \in ThemeResults(k) :
                   /\ Len(out.value[j].events) = Cardinality(Referencing(k))
                   /\ Range(out.value[j].events) = {events[i].id : i \in Referencing(k)}
                   /\ out.value[j].score = Min(100, 15 * Cardinality(Referencing(k)))
                   /\ out.value[j].significance =
                        IF Cardinality(Referencing(k)) >= 5 THEN "high" ELSE "medium"
         ELSE ThemeResults(k) = {}

\* ------------------------------------------------------------------ C8

\* The ordered pairs (earlier, later) of the snapshot.
OrderedPairs ==
  {p \in (1..Len(events)) \X (1..Len(events)) : events[p[1]].date < events[p[2]].date}

GapOf(p) == events[p[2]].date - events[p[1]].date

\* C8: a cascade result exists for (earlier, later) iff the gap is strictly between 6
\* and 48 hours and the events share a region or at least 2 keywords; its
\* significance is high exactly when the gap is below 12 hours, medium otherwise.
C8_CascadeIffGapAndRelated ==
  out.fn = "detectCascades" =>
    /\ \A p \in OrderedPairs :
         ResultsFor(out.value, p) # {} <=>
           /\ GapOf(p) > 6 /\ GapOf(p) < 48
           /\ \/ events[p[1]].region = events[p[2]].region
              \/ Cardinality(CommonKeywords(p)) >= 2
    /\ \A p \in OrderedPairs : \A k \in ResultsFor(out.value, p) :
         out.value[k].significance = IF GapOf(p) < 12 THEN "high" ELSE "medium"
    /\ \A k \in 1..Len(out.value) :
         \E p \in OrderedPairs : k \in ResultsFor(out.value, p)

\* ------------------------------------------------------------------ C9

\* The positions of the high-significance results of rs.
HighAt(rs) == {i \in 1..Len(rs) : rs[i].significance = "high"}

\* The n-th high-significance result of rs.
NthHigh(rs, n) ==
  rs[CHOOSE i \in HighAt(rs) : Cardinality({j \in HighAt(rs) : j < i}) = n - 1]

\* The k-th element of [high temporal, then high spatial, then high cascades].
NthProjected(b, k) ==
  LET nt == Cardinality(HighAt(b.temporal))
      ns == Cardinality(HighAt(b.spatial))
  IN IF k <= nt THEN NthHigh(b.temporal, k)
     ELSE IF k <= nt + ns THEN NthHigh(b.spatial, k - nt)
     ELSE NthHigh(b.cascades, k - nt - ns)

HighCount(b) ==
  Cardinality(HighAt(b.temporal)) + Cardinality(HighAt(b.spatial))
  + Cardinality(HighAt(b.cascades))

\* C9: correlationsToThreatSignals returns the first min(5, n) elements, by position,
\* of [high temporal, high spatial, high cascade results], each as an alert of type
\* correlation_<type>, severity medium, with the original score, description and
\* event ids: never more than 5 alerts and never one from a thematic result.
C9_FirstFiveHighByPosition ==
  out.fn = "correlationsToThreatSignals" =>
    /\ Len(out.value) = Min(5, HighCount(out.arg))
    /\ Len(out.value) <= 5
    /\ \A k \in 1..Len(out.value) :
         LET r == NthProjected(out.arg, k)
             a == out.value[k]
         IN /\ r.type \in {"temporal", "spatial", "cascade"}
            /\ a.type = (CASE r.type = "temporal" -> "correlation_temporal"
                           [] r.type = "spatial" -> "correlation_spatial"
                           [] r.type = "cascade" -> "correlation_cascade")
            /\ a.severity = "medium"
            /\ a.score = r.score
            /\ a.description = r.description
            /\ a.events = r.events

\* More than 5 high results besides a high thematic one: the alerts stop at 5, in the
\* order temporal then spatial, a lower score before a higher one.
C9_Witness ==
  /\ out.fn = "correlationsToThreatSignals"
  /\ HighCount(out.arg) > 5
  /\ Len(out.value) = 5
  /\ HighAt(out.arg.thematic) # {}
  /\ \E k \in 1..5 : out.value[k].type = "correlation_spatial"
  /\ \E k \in 1..4 : out.value[k].score < out.value[k + 1].score

\* ------------------------------------------------------------------ C10

ScoresOf(rs) == {rs[i].score : i \in 1..Len(rs)}

\* C10: every score of every temporal, spatial, thematic and cascade result and every
\* confidence of every pattern returned by runCorrelationEngine is an integer in
\* [0,100].
C10_ScoresWithinRange ==
  out.fn = "runCorrelationEngine" =>
    /\ ScoresOf(out.value.temporal) \subseteq 0..100
    /\ ScoresOf(out.value.spatial) \subseteq 0..100
    /\ ScoresOf(out.value.thematic) \subseteq 0..100
    /\ ScoresOf(out.value.cascades) \subseteq 0..100
    /\ {out.value.patterns[i].confidence : i \in 1..Len(out.value.patterns)} \subseteq 0..100

\* A run with results of all four kinds, a temporal one clamped to 100.
C10_Witness ==
  /\ out.fn = "runCorrelationEngine"
  /\ out.value.temporal # <<>>
  /\ out.value.spatial # <<>>
  /\ out.value.thematic # <<>>
  /\ out.value.cascades # <<>>
  /\ 100 \in ScoresOf(out.value.temporal)

\* ------------------------------------------------------------------ C11

\* The event of the snapshot with the given id.
EventOf(id) == events[CHOOSE i \in 1..Len(events) : events[i].id = id]

\* The distance from the seed of cluster c to the event with the given id.
SeedDistance(c, id) ==
  haversineDistance(c.centerLat, c.centerLon, EventOf(id).lat[1], EventOf(id).lon[1])

\* The largest distance from the seed of cluster c to an event it counted.
MaxMemberDistance(c) ==
  MaxOfSet({SeedDistance(c, c.members[k]) : k \in 1..Len(c.members)})

\* C11 as stated: every cluster findGeographicClusters emits has radiusKm equal to the
\* maximum distance from its seed to a member it absorbed, and eventCount >= 2.
C11_RadiusIsMaxDistance ==
  out.fn = "findGeographicClusters" =>
    \A i \in 1..Len(out.value) :
      /\ out.value[i].eventCount >= 2
      /\ out.value[i].radiusKm = MaxMemberDistance(out.value[i])

\* C11 amended: every emitted cluster has eventCount >= 2, one more than the members
\* it absorbed, and radiusKm equal to the larger of 50 km and the maximum distance
\* from its seed to a member it absorbed.
C11_RadiusIsMaxDistanceFromFifty ==
  out.fn = "findGeographicClusters" =>
    \A i \in 1..Len(out.value) :
      /\ out.value[i].eventCount >= 2
      /\ out.value[i].eventCount = 1 + Len(out.value[i].members)
      /\ out.value[i].radiusKm =
           IF MaxMemberDistance(out.value[i]) > CLUSTER_START_RADIUS_KM * 1000
           THEN MaxMemberDistance(out.value[i])
           ELSE CLUSTER_START_RADIUS_KM * 1000

\* A cluster of a seed and two members, one of them farther than 50 km from the seed
\* and the other nearer.
C11_Witness ==
  /\ out.fn = "findGeographicClusters"
  /\ \E i \in 1..Len(out.value) :
       /\ out.value[i].eventCount = 3
       /\ out.value[i].radiusKm > CLUSTER_START_RADIUS_KM * 1000
       /\ \E k \in 1..2 :
            SeedDistance(out.value[i], out.value[i].members[k])
              < CLUSTER_START_RADIUS_KM * 1000

\* ------------------------------------------------------------------ C12

\* The ranking keys of a collection, in the order of the collection.
ScoreKeys(rs) == [i \in 1..Len(rs) |-> rs[i].score]
ConfidenceKeys(ps) == [i \in 1..Len(ps) |-> ps[i].confidence]
EventCountKeys(cs) == [i \in 1..Len(cs) |-> cs[i].eventCount]

NonIncreasing(ks) == \A i \in 1..Len(ks) - 1 : ks[i] >= ks[i + 1]

\* More than one key, not all of them equal.
SeveralKeys(ks) == \E i, j \in 1..Len(ks) : ks[i] # ks[j]

\* C12: each of the six collections runCorrelationEngine returns is in non-increasing
\* order of its ranking key: temporal, spatial, thematic and cascades by score,
\* patterns by confidence, clusters by eventCount.
C12_CollectionsSortedDescending ==
  out.fn = "runCorrelationEngine" =>
    /\ NonIncreasing(ScoreKeys(out.value.temporal))
    /\ NonIncreasing(ScoreKeys(out.value.spatial))
    /\ NonIncreasing(ScoreKeys(out.value.thematic))
    /\ NonIncreasing(ScoreKeys(out.value.cascades))
    /\ NonIncreasing(ConfidenceKeys(out.value.patterns))
    /\ NonIncreasing(EventCountKeys(out.value.clusters))

\* A run in which every one of the six collections holds different ranking keys.
C12_Witness ==
  /\ out.fn = "runCorrelationEngine"
  /\ SeveralKeys(ScoreKeys(out.value.temporal))
  /\ SeveralKeys(ScoreKeys(out.value.spatial))
  /\ SeveralKeys(ScoreKeys(out.value.thematic))
  /\ SeveralKeys(ScoreKeys(out.value.cascades))
  /\ SeveralKeys(ConfidenceKeys(out.value.patterns))
  /\ SeveralKeys(EventCountKeys(out.value.clusters))

\* ------------------------------------------------------------------ C13

\* The position in the snapshot of the event with the given id.
IndexOf(id) == CHOOSE i \in 1..Len(events) : events[i].id = id

\* The ids a pass of findGeographicClusters had marked used when it reached position
\* i: the members of the clusters seeded before i (a seed that absorbed nobody marked
\* nobody).
UsedBefore(clusters, i) ==
  UNION {Range(clusters[k].members) :
           k \in {k \in 1..Len(clusters) : IndexOf(clusters[k].seed) < i}}

\* The positions of the events that acted as seeds, emitted as a cluster or not.
SeedsOf(clusters) ==
  {i \in 1..Len(events) :
     HasCoordinates(events[i]) /\ events[i].id \notin UsedBefore(clusters, i)}

\* The clusters that count the event with the given id as a member.
ClustersCounting(clusters, id) ==
  {k \in 1..Len(clusters) : id \in Range(clusters[k].members)}

\* C13: for events with unique ids, any two events that act as cluster seeds are more
\* than 100 km apart, so a seed is never counted as a member of a cluster; only
\* members that are not seeds are counted in more than one cluster.
C13_SeedsFartherThanRadiusApart ==
  out.fn = "findGeographicClusters" =>
    /\ \A k \in 1..Len(out.value) : IndexOf(out.value[k].seed) \in SeedsOf(out.value)
    /\ \A i, j \in SeedsOf(out.value) :
         i # j =>
           haversineDistance(events[i].lat[1], events[i].lon[1],
                             events[j].lat[1], events[j].lon[1])
             > CLUSTER_RADIUS_KM * 1000
    /\ \A i \in SeedsOf(out.value) : ClustersCounting(out.value, events[i].id) = {}
    /\ \A k \in 1..Len(out.value) :
         /\ out.value[k].seed \notin Range(out.value[k].members)
         /\ ClustersCounting(out.value, out.value[k].seed) = {}
         /\ Cardinality(Range(out.value[k].members)) = Len(out.value[k].members)

\* Two seeds with a cluster each, an event that is a member of both, and a seed that
\* absorbed nobody.
C13_Witness ==
  /\ out.fn = "findGeographicClusters"
  /\ Len(out.value) = 2
  /\ \E i \in 1..Len(events) :
       Cardinality(ClustersCounting(out.value, events[i].id)) = 2
  /\ Cardinality(SeedsOf(out.value)) = 3

====
